---- MODULE Spec2Model ----
(***************************************************************************)
(* State-machine model of the two utilities of the repository:             *)
(*   loadtest/loadtest.py : lambda_handler (the load generator) and the    *)
(*                          __main__ block (the CLI wrapper);              *)
(*   loadtest/img2xls.py  : image_to_excel (the image converter).          *)
(* Time is counted in ticks of 0.1 s, the granularity of the default       *)
(* interval.  The wall clock `now` is an environment variable that never   *)
(* runs backwards.                                                         *)
(***************************************************************************)
EXTENDS Integers, Sequences, FiniteSets, TLC

\* ------------------------------------------------------------------ bounds
MaxDuration == 2      \* largest duration (ticks) of an enumerated event
MaxAttempts == 2      \* cap on the POSTs of one run
MaxOutcomes == 3      \* longest outcome sequence handed to the CLI wrapper
MaxWidth    == 2      \* largest max_width of the image converter
MaxHeight   == 2      \* largest new_height of the image converter

\* ------------------------------------------------- constants of loadtest.py
DefaultDuration  == 100       \* event.get("duration", 10): 10 s in ticks
DefaultInterval  == 1         \* event.get("interval", 0.1): 0.1 s in ticks
DefaultCellStart == 0         \* event.get("cell_start", 0)
DefaultCellEnd   == 10000     \* event.get("cell_end", 10000)
MaxBackground    == 16777215  \* random.randint(0, 16777215)

ValidUrl == "http://localhost:3000/api/spreadsheet"

\* ------------------------------------------------- constants of img2xls.py
RowWidth == 26                \* idx = row_start*26+row*26+col

\* ------------------------------------------------------------ input domains
Durations  == 0..MaxDuration
Intervals  == {-1, 0, 1}
CellBounds == {0, 1}          \* explicit cell_start / cell_end
StartTime  == 1               \* wall-clock reading when the handler is invoked
MaxTime    == StartTime + MaxDuration + 1   \* the clock is observed up to here

\* The events lambda_handler is invoked with: every key present, keys with
\* defaults left out, url empty, url absent.
Events ==
       [url : {ValidUrl, ""}, duration : Durations, interval : Intervals,
        cell_start : CellBounds, cell_end : CellBounds]
  \cup [url : {ValidUrl}, duration : Durations, interval : Intervals]
  \cup [url : {ValidUrl}, duration : Durations,
        cell_start : CellBounds, cell_end : CellBounds]
  \cup [url : {""}]
  \cup [url : {""}, duration : Durations]
  \cup [duration : Durations, interval : Intervals]
  \cup [duration : Durations, cell_start : CellBounds, cell_end : CellBounds]
  \cup [interval : Intervals]

\* What the endpoint can answer, and how the transport can fail.
HttpResponses ==
  { [status_code |-> 200, text |-> "ok"],
    [status_code |-> 201, text |-> "created"],
    [status_code |-> 500, text |-> "internal error"] }
TransportErrors == {"ConnectionError", "Timeout"}

\* Candidates the random draws are taken from (the draw keeps those in range).
IdPool == {-1, 0, 1, 2, DefaultCellEnd, DefaultCellEnd + 1}
BackgroundPool == {-1, 0, MaxBackground, MaxBackground + 1}

\* ------------------------------------------------------------------- state
VARIABLES
  event,        \* the argument of lambda_handler
  reachable,    \* environment: can the endpoint complete an exchange at all
  now,          \* environment: time.time()
  pc,           \* position of lambda_handler
  url, duration, interval, cell_start, cell_end,   \* locals, lines 53-57
  start_time,   \* line 65
  responses,    \* line 66
  cell,         \* line 72
  wake,         \* when the pending time.sleep(interval) is over
  result,       \* the value lambda_handler returns
  exc,          \* the exception that left lambda_handler, if any
  \* history variables (not program state)
  wire,         \* what happened to each POST on the wire, in send order
  sent,         \* number of POSTs started
  inflight,     \* number of POSTs started and not yet finished
  sessions,     \* number of requests.Session objects created
  postSession,  \* for each POST, the Session that carried it
  lastElapsed,  \* elapsed time read at the latest loop check
  sleeps,       \* number of completed time.sleep calls
  lastDone,     \* time the latest outcome was recorded (-1: none pending)
  \* the CLI wrapper (__main__ of loadtest.py)
  cli_pc,       \* position of the wrapper
  cli_i,        \* index of the response the for loop is at
  found_error,  \* line 100
  exit_code,    \* exit status of the process (-1: still running)
  exit_via,     \* "sys.exit", or the uncaught exception that ended the process
  \* the image converter (image_to_excel of img2xls.py)
  img_pc,       \* position of image_to_excel
  byteorder,    \* environment: byte order of the host ("little" or "big")
  max_width, new_height, row_start,   \* size of the resized image, first row
  row, col,     \* the two loop counters
  pixel,        \* the (r, g, b, a) read at line 37
  rgba_32, idx, img_cell,             \* lines 38-40
  error_count,  \* line 34
  session_open, \* the requests.Session of line 30 is open
  img_exc       \* the exception that left image_to_excel, if any

lgVars == <<event, reachable, now, pc, url, duration, interval, cell_start,
            cell_end, start_time, responses, cell, wake, result, exc,
            wire, sent, inflight, sessions, postSession, lastElapsed, sleeps,
            lastDone>>

cliVars == <<cli_pc, cli_i, found_error, exit_code, exit_via>>

imgVars == <<img_pc, byteorder, max_width, new_height, row_start, row, col,
             pixel, rgba_32, idx, img_cell, error_count, session_open, img_exc>>

vars == <<lgVars, cliVars, imgVars>>

\* ---------------------------------------------------------------- helpers
\* dict.get(key, default)
Get(d, key, default) == IF key \in DOMAIN d THEN d[key] ELSE default

\* `not url` for a string
Falsy(s) == s = ""

\* Mutant of RandInt: an off-by-one upper bound, the range runs one past b.
RandIntPastEnd(a, b) == a..(b + 1)

\* random.randint(a, b): the set of values it can return (empty: ValueError)
RandInt(a, b) == a..b

\* generate_random_value(): one representative per kind
RandomValues == {"aZ09x", "4711", "=A1000"}

make_cell(ide, raw_value, background) ==
  [id |-> ide, raw_value |-> raw_value, background |-> background]

NoCell   == make_cell(0, "", 0)
NoResult == [status |-> "none"]

ErrorResult == [status |-> "error", message |-> "URL is required"]
ReturnValue(rs) == [requests_made |-> Len(rs), responses |-> rs]

\* the two shapes of an outcome, lines 75-78 and 80
ResponseOutcome(r) == [status_code |-> r.status_code, body |-> r.text]
ErrorOutcome(e)    == [error |-> e]

Elapsed == now - start_time

\* --------------------------------------------------------------------- Init
\* lambda_handler is about to be called.
LgInit ==
  /\ event \in Events
  /\ reachable \in BOOLEAN
  /\ now = StartTime
  /\ pc = "entry"
  /\ url = "" /\ duration = 0 /\ interval = 0
  /\ cell_start = 0 /\ cell_end = 0
  /\ start_time = 0
  /\ responses = <<>>
  /\ cell = NoCell
  /\ wake = 0
  /\ result = NoResult
  /\ exc = "none"
  /\ wire = <<>> /\ sent = 0 /\ inflight = 0
  /\ sessions = 0 /\ postSession = <<>>
  /\ lastElapsed = 0 /\ sleeps = 0 /\ lastDone = -1

\* The CLI wrapper is not running.
CliIdle ==
  /\ cli_pc = "idle" /\ cli_i = 0 /\ found_error = FALSE
  /\ exit_code = -1 /\ exit_via = "none"

\* The image converter is not running.
ImgIdle ==
  /\ img_pc = "idle" /\ byteorder = "little"
  /\ max_width = 0 /\ new_height = 0 /\ row_start = 0
  /\ row = 0 /\ col = 0
  /\ pixel = <<0, 0, 0, 0>>
  /\ rgba_32 = 0 /\ idx = 0 /\ img_cell = NoCell
  /\ error_count = 0 /\ session_open = FALSE /\ img_exc = "none"

Init == LgInit /\ CliIdle /\ ImgIdle

\* ------------------------------------------------------------------ actions
\* lines 53-66: read the parameters, validate the url, take the start time.
Entry ==
  /\ pc = "entry"
  /\ IF "url" \notin DOMAIN event
     THEN \* event["url"] raises KeyError
          /\ pc' = "raised" /\ exc' = "KeyError"
          /\ UNCHANGED <<url, duration, interval, cell_start, cell_end,
                         start_time, result>>
     ELSE /\ url' = event["url"]
          /\ duration' = Get(event, "duration", DefaultDuration)
          /\ interval' = Get(event, "interval", DefaultInterval)
          /\ cell_start' = Get(event, "cell_start", DefaultCellStart)
          /\ cell_end' = Get(event, "cell_end", DefaultCellEnd)
          /\ exc' = exc
          /\ IF Falsy(event["url"])
             THEN /\ pc' = "returned" /\ result' = ErrorResult
                  /\ start_time' = start_time
             ELSE /\ pc' = "while" /\ start_time' = now
                  /\ result' = result
  /\ responses' = <<>>
  /\ UNCHANGED <<cliVars, imgVars>>
  /\ UNCHANGED <<event, reachable, now, cell, wake, wire, sent, inflight,
                 sessions, postSession, lastElapsed, sleeps, lastDone>>

\* Mutant of LoopCondition: <= in place of <.
LoopConditionLe == Elapsed <= duration

\* Mutant of LoopCondition: the elapsed time computed from a stale clock reading.
LoopConditionStale == start_time - start_time < duration

\* line 69: the loop condition
LoopCondition == Elapsed < duration

\* line 69, and lines 85-88 when the condition is false.
While ==
  /\ pc = "while"
  /\ lastElapsed' = Elapsed
  /\ IF LoopCondition
     THEN /\ Len(responses) < MaxAttempts
          /\ pc' = "try" /\ result' = result
     ELSE /\ pc' = "returned" /\ result' = ReturnValue(responses)
  /\ UNCHANGED <<cliVars, imgVars>>
  /\ UNCHANGED <<event, reachable, now, url, duration, interval, cell_start,
                 cell_end, start_time, responses, cell, wake, exc, wire, sent,
                 inflight, sessions, postSession, sleeps, lastDone>>

\* lines 71-74: build the cell and send it.  requests.post is the module-level
\* function: every call opens a Session of its own and closes it afterwards.
Try ==
  /\ pc = "try"
  /\ \E data \in RandomValues :
       IF RandInt(cell_start, cell_end) = {}
       THEN \* random.randint raises ValueError, which line 79 does not catch
            /\ pc' = "raised" /\ exc' = "ValueError"
            /\ UNCHANGED <<cell, sent, inflight, sessions, postSession,
                           lastDone>>
       ELSE \E ide \in {x \in IdPool : x \in RandInt(cell_start, cell_end)},
               bg \in {x \in BackgroundPool : x \in RandInt(0, MaxBackground)} :
            /\ cell' = make_cell(ide, data, bg)
            /\ sessions' = sessions + 1
            /\ postSession' = Append(postSession, sessions + 1)
            /\ sent' = sent + 1
            /\ inflight' = inflight + 1
            /\ lastDone' = -1
            /\ pc' = "post" /\ exc' = exc
  /\ UNCHANGED <<cliVars, imgVars>>
  /\ UNCHANGED <<event, reachable, now, url, duration, interval, cell_start,
                 cell_end, start_time, responses, wake, result, wire,
                 lastElapsed, sleeps>>

\* Mutant of OnResponse: the outcome put at the front of the list.
OnResponsePrepend(r) ==
  /\ responses' = <<ResponseOutcome(r)>> \o responses
  /\ pc' = "interval" /\ exc' = exc

\* lines 74-78: the exchange completed, with whatever status.
OnResponse(r) ==
  /\ responses' = Append(responses, ResponseOutcome(r))
  /\ pc' = "interval" /\ exc' = exc

PostReturn ==
  /\ pc = "post" /\ reachable
  /\ \E r \in HttpResponses :
       /\ OnResponse(r)
       /\ wire' = Append(wire, [kind |-> "response", status_code |-> r.status_code,
                                text |-> r.text])
  /\ inflight' = inflight - 1
  /\ lastDone' = now
  /\ cell' = NoCell
  /\ UNCHANGED <<cliVars, imgVars>>
  /\ UNCHANGED <<event, reachable, now, url, duration, interval, cell_start,
                 cell_end, start_time, wake, result, sent, sessions,
                 postSession, lastElapsed, sleeps>>

\* Mutant of OnRequestException: the exception is not caught.
OnRequestExceptionRaise(e) ==
  /\ responses' = responses
  /\ pc' = "raised" /\ exc' = e

\* lines 79-80: requests.RequestException is caught and recorded.
OnRequestException(e) ==
  /\ responses' = Append(responses, ErrorOutcome(e))
  /\ pc' = "interval" /\ exc' = exc

PostFail ==
  /\ pc = "post"
  /\ \E e \in TransportErrors :
       /\ OnRequestException(e)
       /\ wire' = Append(wire, [kind |-> "exception", str |-> e])
  /\ inflight' = inflight - 1
  /\ lastDone' = now
  /\ cell' = NoCell
  /\ UNCHANGED <<cliVars, imgVars>>
  /\ UNCHANGED <<event, reachable, now, url, duration, interval, cell_start,
                 cell_end, start_time, wake, result, sent, sessions,
                 postSession, lastElapsed, sleeps>>

\* line 82
SleepCondition == interval > 0

\* lines 82-83: sleep when the interval is positive.
Interval ==
  /\ pc = "interval"
  /\ IF SleepCondition
     THEN pc' = "sleep" /\ wake' = now + interval
     ELSE pc' = "while" /\ wake' = wake
  /\ UNCHANGED <<cliVars, imgVars>>
  /\ UNCHANGED <<event, reachable, now, url, duration, interval, cell_start,
                 cell_end, start_time, responses, cell, result, exc, wire,
                 sent, inflight, sessions, postSession, lastElapsed, sleeps,
                 lastDone>>

\* Mutant of SleepOver: the sleep returns at once.
SleepOverAtOnce == TRUE

\* line 83: time.sleep returns once the interval has passed.
SleepOver == now >= wake

SleepDone ==
  /\ pc = "sleep"
  /\ SleepOver
  /\ pc' = "while"
  /\ sleeps' = sleeps + 1
  /\ UNCHANGED <<cliVars, imgVars>>
  /\ UNCHANGED <<event, reachable, now, url, duration, interval, cell_start,
                 cell_end, start_time, responses, cell, wake, result, exc,
                 wire, sent, inflight, sessions, postSession, lastElapsed,
                 lastDone>>

\* The clock advances while the run is in progress.
Tick ==
  /\ pc \notin {"entry", "returned", "raised"}
  /\ now < MaxTime \/ (pc = "sleep" /\ now < wake)
  /\ now' = now + 1
  /\ UNCHANGED <<cliVars, imgVars>>
  /\ UNCHANGED <<event, reachable, pc, url, duration, interval, cell_start,
                 cell_end, start_time, responses, cell, wake, result, exc,
                 wire, sent, inflight, sessions, postSession, lastElapsed,
                 sleeps, lastDone>>

Next ==
  \/ Entry
  \/ While
  \/ Try
  \/ PostReturn
  \/ PostFail
  \/ Interval
  \/ SleepDone
  \/ Tick

Spec == Init /\ [][Next]_vars

\* The clock advances, the interpreter keeps executing lambda_handler, and
\* every POST returns or fails in finite time.
FairSpec ==
  /\ Spec
  /\ WF_vars(Tick)
  /\ WF_vars(Entry \/ While \/ Try \/ Interval \/ SleepDone)
  /\ WF_vars(PostReturn \/ PostFail)

\* ================================================================ CLI wrapper
\* loadtest.py, lines 90-114.  The wrapper calls lambda_handler and inspects
\* the list of outcomes it returned.

\* line 92-98: the event of the wrapper
MainEvent ==
  [url |-> ValidUrl, duration |-> DefaultDuration, interval |-> 0,
   cell_start |-> 0, cell_end |-> DefaultCellEnd]

\* every outcome lambda_handler can record
Outcomes ==
  {ResponseOutcome(r) : r \in HttpResponses} \cup {ErrorOutcome(e) : e \in TransportErrors}

OutcomeSeqs == UNION {[1..n -> Outcomes] : n \in 0..MaxOutcomes}

\* line 99: lambda_handler has returned to the wrapper.
CliInit ==
  /\ event = MainEvent
  /\ reachable \in BOOLEAN
  /\ now = DefaultDuration
  /\ pc = "returned"
  /\ url = MainEvent.url /\ duration = MainEvent.duration
  /\ interval = MainEvent.interval
  /\ cell_start = MainEvent.cell_start /\ cell_end = MainEvent.cell_end
  /\ start_time = 0
  /\ responses \in OutcomeSeqs
  /\ reachable \/ \A i \in DOMAIN responses : "error" \in DOMAIN responses[i]
  /\ cell = NoCell
  /\ wake = 0
  /\ result = ReturnValue(responses)
  /\ exc = "none"
  /\ wire = <<>> /\ sent = Len(responses) /\ inflight = 0
  /\ sessions = Len(responses) /\ postSession = [i \in DOMAIN responses |-> i]
  /\ lastElapsed = DefaultDuration /\ sleeps = 0 /\ lastDone = -1
  /\ cli_pc = "for" /\ cli_i = 1 /\ found_error = FALSE
  /\ exit_code = -1 /\ exit_via = "none"

\* Mutant of StatusIsFailure: any 2xx status counts as success.
StatusIsFailureNon2xx(response) ==
  ~(200 <= response["status_code"] /\ response["status_code"] < 300)

\* line 105
StatusIsFailure(response) == response["status_code"] # 200

\* lines 101-108: one pass of the for loop (what it prints is left out).  On an
\* {error} outcome line 105
\* looks up a key the record does not have: the KeyError is not caught and the
\* interpreter ends the process with exit status 1.
CliInspect ==
  /\ cli_pc = "for" /\ cli_i <= Len(result.responses)
  /\ LET response == result.responses[cli_i]
         found1   == found_error \/ "error" \in DOMAIN response
     IN  IF "status_code" \notin DOMAIN response
         THEN /\ found_error' = found1
              /\ cli_pc' = "exited" /\ exit_code' = 1 /\ exit_via' = "KeyError"
              /\ cli_i' = cli_i
         ELSE /\ found_error' = (found1 \/ StatusIsFailure(response))
              /\ cli_i' = cli_i + 1
              /\ UNCHANGED <<cli_pc, exit_code, exit_via>>
  /\ UNCHANGED <<lgVars, imgVars>>

\* lines 109-114: the loop is over.
CliExit ==
  /\ cli_pc = "for" /\ cli_i > Len(result.responses)
  /\ cli_pc' = "exited" /\ exit_via' = "sys.exit"
  /\ exit_code' = IF ~found_error THEN 0 ELSE 1
  /\ UNCHANGED <<cli_i, found_error>>
  /\ UNCHANGED <<lgVars, imgVars>>

CliNext ==
  \/ CliInspect
  \/ CliExit

InitCLI == CliInit /\ ImgIdle

SpecCLI == InitCLI /\ [][CliNext]_vars

\* ============================================================ image converter
\* img2xls.py, image_to_excel.  The image library hands back a resized image of
\* max_width x new_height pixels; its pixels are read one at a time.

ByteSamples == {0, 1, 128, 255}
Pixels == ByteSamples \X ByteSamples \X ByteSamples \X ByteSamples

\* lines 19-27: the image is loaded and resized.
ImgInit ==
  /\ img_pc = "start"
  /\ byteorder \in {"little", "big"}
  /\ max_width \in 1..MaxWidth
  /\ new_height \in 0..MaxHeight
  /\ row_start \in {0, 1}
  /\ row = 0 /\ col = 0
  /\ pixel = <<0, 0, 0, 0>>
  /\ rgba_32 = 0 /\ idx = 0 /\ img_cell = NoCell
  /\ error_count = 0 /\ session_open = FALSE /\ img_exc = "none"

\* struct.pack('>4B', r, g, b, a): the four bytes in that order
Pack4B(r, g, b, a) == <<r, g, b, a>>

\* The four bytes hi, b2, b3, lo (most significant first) of a 32-bit word read
\* as a two's-complement integer: hi*2^24 + b2*2^16 + b3*2^8 + lo, minus 2^32
\* when the top bit is set.  The subtraction is done on the top byte
\* (256 * 2^24 = 2^32), which keeps every intermediate value within 32 bits.
SignedWord(hi, b2, b3, lo) ==
  (IF hi >= 128 THEN hi - 256 ELSE hi) * 16777216 + b2 * 65536 + b3 * 256 + lo

\* struct.unpack('i', bytes)[0]: no byte-order prefix, so the four bytes are
\* read in the byte order of the host.
UnpackNativeInt(bytes) ==
  IF byteorder = "big"
  THEN SignedWord(bytes[1], bytes[2], bytes[3], bytes[4])
  ELSE SignedWord(bytes[4], bytes[3], bytes[2], bytes[1])

\* lines 30-34: the Session is opened, the counter set.
ImgOpen ==
  /\ img_pc = "start"
  /\ session_open' = TRUE /\ error_count' = 0
  /\ row' = 0 /\ col' = 0
  /\ img_pc' = "loop"
  /\ UNCHANGED <<byteorder, max_width, new_height, row_start, pixel, rgba_32,
                 idx, img_cell, img_exc>>
  /\ UNCHANGED <<lgVars, cliVars>>

\* lines 35-41: read the next pixel, pack it, build the cell and send it.
ImgSend ==
  /\ img_pc = "loop" /\ row < new_height
  /\ \E px \in Pixels :
       LET packed == UnpackNativeInt(Pack4B(px[1], px[2], px[3], px[4]))
           index  == row_start * RowWidth + row * RowWidth + col
       IN  /\ pixel' = px
           /\ rgba_32' = packed
           /\ idx' = index
           /\ img_cell' = make_cell(index, "", packed)
  /\ img_pc' = "post"
  /\ UNCHANGED <<byteorder, max_width, new_height, row_start, row, col,
                 error_count, session_open, img_exc>>
  /\ UNCHANGED <<lgVars, cliVars>>

\* lines 41-43 and the loop headers of lines 35-36: the answer is counted when
\* it is not a 200, and the loops move on.
ImgPostReturn ==
  /\ img_pc = "post"
  /\ \E r \in HttpResponses :
       error_count' = IF r.status_code # 200 THEN error_count + 1 ELSE error_count
  /\ IF col + 1 < max_width
     THEN col' = col + 1 /\ row' = row
     ELSE col' = 0 /\ row' = row + 1
  /\ img_pc' = "loop"
  /\ UNCHANGED <<byteorder, max_width, new_height, row_start, pixel, rgba_32,
                 idx, img_cell, session_open, img_exc>>
  /\ UNCHANGED <<lgVars, cliVars>>

\* lines 44-45: a RequestException is raised again; the with block closes the
\* Session on the way out.
ImgPostFail ==
  /\ img_pc = "post"
  /\ \E e \in TransportErrors : img_exc' = e
  /\ img_pc' = "raised" /\ session_open' = FALSE
  /\ UNCHANGED <<byteorder, max_width, new_height, row_start, row, col, pixel,
                 rgba_32, idx, img_cell, error_count>>
  /\ UNCHANGED <<lgVars, cliVars>>

\* lines 46-47: every pixel was sent; the with block closes the Session.
ImgDone ==
  /\ img_pc = "loop" /\ row >= new_height
  /\ img_pc' = "done" /\ session_open' = FALSE
  /\ UNCHANGED <<byteorder, max_width, new_height, row_start, row, col, pixel,
                 rgba_32, idx, img_cell, error_count, img_exc>>
  /\ UNCHANGED <<lgVars, cliVars>>

ImgNext ==
  \/ ImgOpen
  \/ ImgSend
  \/ ImgPostReturn
  \/ ImgPostFail
  \/ ImgDone

\* image_to_excel runs on its own; lambda_handler is not involved.
LgIdle ==
  /\ event = MainEvent /\ reachable = TRUE /\ now = 0
  /\ pc = "idle"
  /\ url = "" /\ duration = 0 /\ interval = 0
  /\ cell_start = 0 /\ cell_end = 0
  /\ start_time = 0 /\ responses = <<>> /\ cell = NoCell /\ wake = 0
  /\ result = NoResult /\ exc = "none"
  /\ wire = <<>> /\ sent = 0 /\ inflight = 0
  /\ sessions = 0 /\ postSession = <<>>
  /\ lastElapsed = 0 /\ sleeps = 0 /\ lastDone = -1

InitImg == LgIdle /\ CliIdle /\ ImgInit

SpecImg == InitImg /\ [][ImgNext]_vars

\* ------------------------------------------------------------ load generator
\* history helpers
OutcomeOf(w) ==
  IF w.kind = "response"
  THEN [status_code |-> w.status_code, body |-> w.text]
  ELSE [error |-> w.str]

IsPrefix(s, t) == Len(s) <= Len(t) /\ \A i \in 1..Len(s) : s[i] = t[i]

UrlMissingOrEmpty == "url" \notin DOMAIN event \/ event["url"] = ""

NormalReturn == pc = "returned" /\ "requests_made" \in DOMAIN result

\* C1: a transport failure of a POST appends exactly one {error: description}
\* outcome, the run goes on to line 82 and from there only to the sleep and the
\* next loop check, and no transport failure ever leaves lambda_handler.
C1_TransportFailureIsRecorded ==
  /\ [][ (pc = "post" /\ Len(wire') = Len(wire) + 1
                      /\ wire'[Len(wire')].kind = "exception")
         => /\ responses' = Append(responses, [error |-> wire'[Len(wire')].str])
            /\ pc' = "interval" ]_vars
  /\ [][ (pc = "interval" => pc' \in {"interval", "sleep", "while"})
         /\ (pc = "sleep" => pc' \in {"sleep", "while"}) ]_vars
  /\ [](exc \notin TransportErrors)

\* C1 witness: the first POST failed at transport level and a second POST, with
\* a new cell, is on its way.
C1_Witness ==
  /\ pc = "post" /\ sent = 2
  /\ wire[1].kind = "exception"
  /\ responses = <<[error |-> wire[1].str]>>

\* C2 (as claimed): once lambda_handler has acted on an event whose url is
\* absent or empty, it has returned the configuration-error result and no POST
\* was attempted.
C2_MissingUrlIsConfigError ==
  (pc # "entry" /\ UrlMissingOrEmpty)
    => (pc = "returned" /\ result = ErrorResult /\ sent = 0)

\* C3: an attempt is under way only if the elapsed time read at the loop check
\* was below duration; the run returns only after a check that read an elapsed
\* time of at least duration; every POST started is finished and recorded by
\* then; a run with duration 0 makes no request.
C3_DurationBound ==
  /\ pc \in {"try", "post"} => lastElapsed < duration
  /\ NormalReturn => /\ lastElapsed >= duration
                     /\ inflight = 0
                     /\ Len(responses) = sent
                     /\ result.requests_made = sent
  /\ (pc # "entry" /\ Get(event, "duration", DefaultDuration) = 0) => sent = 0

\* C3 witness: a run returned whose last POST finished after the duration had
\* already been exceeded.
C3_Witness ==
  /\ NormalReturn /\ sent >= 1 /\ duration >= 1
  /\ lastDone - start_time > duration

\* C4 (as claimed): every run with a valid url eventually returns its result.
C4_EveryValidRunReturns == (pc = "while") ~> NormalReturn

\* C4 (amended): every run with a valid url and cell_start <= cell_end
\* eventually returns its result, also when every POST fails.
C4_ValidRangeRunReturns ==
  (pc = "while" /\ cell_start <= cell_end) ~> NormalReturn

\* C4 witness: the endpoint is unreachable, every attempt failed, and the run
\* has returned.
C4_Witness ==
  /\ NormalReturn /\ ~reachable /\ sent = MaxAttempts
  /\ \A i \in DOMAIN result.responses : "error" \in DOMAIN result.responses[i]

\* C5: responses is, at every point, the outcomes of the POSTs finished so far
\* in the order they were sent, one per POST; it only grows at its end; the
\* returned requests_made is its length and the number of POSTs.
C5_OutcomesInSendOrder ==
  /\ [](/\ Len(responses) = Len(wire)
        /\ \A i \in DOMAIN wire : responses[i] = OutcomeOf(wire[i])
        /\ sent = Len(responses) + inflight
        /\ NormalReturn => /\ result.responses = responses
                           /\ result.requests_made = Len(responses)
                           /\ result.requests_made = sent)
  /\ [][IsPrefix(responses, responses') /\ Len(responses') <= Len(responses) + 1]_vars

\* C5 witness: a returned run whose first POST failed at transport level and
\* whose second got a 500.
C5_Witness ==
  /\ NormalReturn /\ result.requests_made = 2
  /\ wire[1].kind = "exception"
  /\ wire[2].kind = "response" /\ wire[2].status_code = 500

\* C7 (as claimed): all POSTs of a run go through one and the same Session.
C7_SingleClient ==
  /\ sessions <= 1
  /\ \A i, j \in DOMAIN postSession : postSession[i] = postSession[j]

\* C8: the cell of every POST has cell_start <= id <= cell_end and
\* 0 <= background <= 16777215; with cell_start = cell_end the id is that value.
C8_CellInRange ==
  pc = "post" =>
    /\ cell_start <= cell.id /\ cell.id <= cell_end
    /\ 0 <= cell.background /\ cell.background <= 16777215
    /\ cell_start = cell_end => cell.id = cell_start

\* C8 witness: a POST from a one-cell range carrying the largest background.
C8_Witness ==
  /\ pc = "post" /\ cell_start = cell_end /\ cell_start = 1
  /\ cell.id = 1 /\ cell.background = 16777215

\* C10: at most one POST is in flight; a POST is sent only when every earlier
\* one has its outcome recorded; with interval > 0 one sleep of at least
\* interval separates every outcome from the next loop check and POST; with
\* interval <= 0 the run never sleeps.
C10_Sequential ==
  /\ inflight \in {0, 1}
  /\ inflight = 1 <=> pc = "post"
  /\ pc = "post" => Len(responses) = sent - 1
  /\ (interval > 0 /\ pc \in {"while", "try", "returned"} /\ lastDone >= 0)
       => (sleeps = sent /\ now >= lastDone + interval)
  /\ (interval > 0 /\ pc = "post") => sleeps = sent - 1
  /\ interval <= 0 => (sleeps = 0 /\ pc # "sleep")

\* C10 witness: with a positive interval, the first POST failed, the run slept,
\* and the second POST is in flight.
C10_Witness ==
  /\ pc = "post" /\ sent = 2 /\ interval > 0 /\ sleeps = 1
  /\ wire[1].kind = "exception"

\* ---------------------------------------------------------------- CLI wrapper
HasError(o) == "error" \in DOMAIN o

Is200(o) == IF "status_code" \in DOMAIN o THEN o["status_code"] = 200 ELSE FALSE

\* C6: the process exits with 0 exactly when no outcome has an error field and
\* every outcome has status_code 200, and with 1 whenever some outcome has an
\* error field or a status_code other than 200.
C6_ExitStatus ==
  cli_pc = "exited" =>
    LET rs == result.responses
        allGood == \A i \in DOMAIN rs : ~HasError(rs[i]) /\ Is200(rs[i])
    IN  /\ exit_code = 0 <=> allGood
        /\ ~allGood => exit_code = 1

\* C6 witness: the wrapper has exited on a sequence whose second outcome is a
\* transport error, after a 200.
C6_Witness ==
  /\ cli_pc = "exited" /\ Len(result.responses) >= 2
  /\ Is200(result.responses[1]) /\ HasError(result.responses[2])
  /\ exit_code = 1

\* ------------------------------------------------------------ image converter
\* the claimed packing: the word R*2^24 + G*2^16 + B*2^8 + A, minus 2^32 when
\* R >= 128 (2^32 = 256 * 2^24 is taken off the R term)
BigEndianSigned(px) ==
  (px[1] - (IF px[1] >= 128 THEN 256 ELSE 0)) * 16777216
    + px[2] * 65536 + px[3] * 256 + px[4]

\* C9 (as claimed): the background sent for a pixel (R, G, B, A) is the
\* big-endian word of the bytes R, G, B, A read as a signed 32-bit integer.
C9_BackgroundIsBigEndianWord ==
  img_pc = "post" => img_cell.background = BigEndianSigned(pixel)

====
